---- MODULE Spec2Model ----
(***************************************************************************)
(* A model of permission-middleware: the Permission constructor and its   *)
(* registry of used codes (lib/permission.js), Permission.prototype.test, *)
(* and the has / all / any combinators (lib/helper.js) built on           *)
(* async.all / async.any.                                                 *)
(***************************************************************************)
EXTENDS Integers, Sequences, FiniteSets, TLC

VARIABLES
  codes,    \* Permission._codes: the array of codes in use
  perms,    \* the permission instances constructed so far
  built,    \* the test functions built by has / all / any at load time,
            \* each with the call that built it
  call,     \* the last call made to the library and its arguments
  error,    \* message of the error the last call threw ("" when none)
  resets,   \* whether Permission._codes was ever cleared
  evals     \* the evaluations of test functions started so far

vars == <<codes, perms, built, call, error, resets, evals>>

(***************************************************************************)
(* Bounds of the model.                                                    *)
(***************************************************************************)
MaxCodes == 2     \* length of Permission._codes and number of instances
MaxEvals == 1     \* evaluations started
MaxFlight == 2    \* evaluations of one test function in flight together

(***************************************************************************)
(* JavaScript values.  A value is named by a string; a code carries its    *)
(* type, so that 1 and '1' are different values with the same property key.*)
(***************************************************************************)
JSVal == {"true", "false", "undefined", "null", "zero", "empty", "foo"}
BoolVal == {"true", "false"}

\* Boolean(v): the truthiness of a value
Truthy(v) == v \in {"true", "foo"}

\* the boolean value true / false for a model boolean
FromBool(b) == IF b THEN "true" ELSE "false"

Num(d) == [t |-> "number", v |-> d]
Str(s) == [t |-> "string", v |-> s]
Undef == [t |-> "undefined", v |-> "undefined"]

\* !code for a code argument
FalsyCode(code) ==
  \/ code.t = "undefined"
  \/ code.t = "string" /\ code.v = ""
  \/ code.t = "number" /\ code.v = "0"

\* the property key permissions[code] reads: String(code)
ToPropertyKey(code) == code.v

CodeArgs == {Num("0"), Num("1"), Num("2"), Str("1"), Str(""), Undef}
Keys == {"0", "1", "2"}

\* typeof of the values passed as the constructor's third argument
TestArgs == {"undefined", "fn1", "fn2", "string", "zero", "false", "null",
             "object"}
TruthyArg(a) == a \in {"fn1", "fn2", "string", "object"}
IsFunctionAny(a) == TRUE
\* typeof test === 'function'
IsFunction(a) == a \in {"fn1", "fn2"}
\* Function.length of a verifier
Arity(a) == IF a = "fn2" THEN 2 ELSE 1

(***************************************************************************)
(* Permission types.  A type is named by the getPermissions its prototype  *)
(* chain resolves to: "base" is Permission itself, "inherited" a type      *)
(* created with an argument that is not a function.                        *)
(***************************************************************************)
Getters == {"user", "client"}
GetterArgs == Getters \cup {"notAFunction"}

\* Permission.create(getPermissions)
create(getPermissions) ==
  IF getPermissions \in Getters THEN getPermissions ELSE "inherited"

Types == {"base"} \cup {create(g) : g \in GetterArgs}

(***************************************************************************)
(* The constructor and the registry of used codes.                         *)
(***************************************************************************)
MissingCodeNoZero(code) == FalsyCode(code)
\* !code && code !== 0
MissingCode(code) == FalsyCode(code) /\ code # Num("0")

isUsedCodeNever(cs, code) == FALSE
\* Permission.isUsedCode: indexOf compares with ===
isUsedCode(cs, code) == \E i \in 1..Len(cs) : cs[i] = code

\* the fields the constructor sets on the new instance
NewPermission(ty, code, allowedByDefault, test) ==
  [type |-> ty,
   code |-> code,
   allowedByDefault |-> Truthy(allowedByDefault),
   _test |-> IF TruthyArg(test) THEN test ELSE "undefined"]

PermissionCtorReplaces(cs, ty, code, allowedByDefault, test) ==
  IF MissingCode(code)
  THEN [codes |-> cs, made |-> <<>>, error |-> "Missing permission code"]
  ELSE IF isUsedCode(cs, code)
  THEN [codes |-> cs, made |-> <<>>, error |-> "Duplicate permission code"]
  ELSE IF TruthyArg(test) /\ ~IsFunction(test)
  THEN [codes |-> <<code>>, made |-> <<>>,
        error |-> "Invalid permission test"]
  ELSE [codes |-> <<code>>,
        made |-> <<NewPermission(ty, code, allowedByDefault, test)>>,
        error |-> ""]
\* Permission(code, allowedByDefault, test) run with registry cs: the
\* registry it leaves, the instances it returns (none when it throws) and
\* the message of the error it throws
PermissionCtor(cs, ty, code, allowedByDefault, test) ==
  IF MissingCode(code)
  THEN [codes |-> cs, made |-> <<>>, error |-> "Missing permission code"]
  ELSE IF isUsedCode(cs, code)
  THEN [codes |-> cs, made |-> <<>>, error |-> "Duplicate permission code"]
  ELSE IF TruthyArg(test) /\ ~IsFunction(test)
  THEN [codes |-> Append(cs, code), made |-> <<>>,
        error |-> "Invalid permission test"]
  ELSE [codes |-> Append(cs, code),
        made |-> <<NewPermission(ty, code, allowedByDefault, test)>>,
        error |-> ""]

NewCall(ty, code, test) ==
  [op |-> "new", type |-> ty, code |-> code, test |-> test, args |-> <<>>]
OtherCall(op) ==
  [op |-> op, type |-> "base", code |-> Undef, test |-> "undefined",
   args |-> <<>>]
\* has(...), all(...) or any(...) called with the checkables args
BuildCall(op, args) == [OtherCall(op) EXCEPT !.args = args]

\* new Permission(...) or new PermissionType(...)
Construct(ty, code, allowedByDefault, test) ==
  /\ Len(codes) < MaxCodes
  /\ Len(perms) < MaxCodes
  /\ LET r == PermissionCtor(codes, ty, code, allowedByDefault, test)
     IN /\ codes' = r.codes
        /\ perms' = perms \o r.made
        /\ error' = r.error
  /\ call' = NewCall(ty, code, test)
  /\ UNCHANGED <<built, resets, evals>>

\* clearPermissionCodes: Permission._codes = []
Reset ==
  /\ codes # <<>>
  /\ codes' = <<>>
  /\ resets' = TRUE
  /\ error' = ""
  /\ call' = OtherCall("reset")
  /\ UNCHANGED <<perms, built, evals>>

(***************************************************************************)
(* Checkables and test functions.  Every value handed to or returned by    *)
(* has / all / any is a record [k, p, kids]:                               *)
(*   "perm"   the Permission instance perms[p]                             *)
(*   "array"  an array of the checkables kids                              *)
(*   "string" a string (neither a function, nor a permission, nor an array)*)
(*   "test"   the function has() returns for perms[p]: it calls its test   *)
(*   "all"    the function all() returns over the test functions kids      *)
(*   "any"    the function any() returns over the test functions kids      *)
(*   "throw"  no value: the call threw 'Invalid permission'                *)
(***************************************************************************)
Node(k, p, kids) == [k |-> k, p |-> p, kids |-> kids]
PermObj(p) == Node("perm", p, <<>>)
Array(items) == Node("array", 0, items)
AString == Node("string", 0, <<>>)
Thrown == Node("throw", 0, <<>>)

isArray(c) == c.k = "array"
IsFunctionValue(c) == c.k \in {"test", "all", "any"}
\* permission && permission.test
HasTest(c) == c.k = "perm"
Threw(tests) == \E i \in 1..Len(tests) : tests[i].k = "throw"

RECURSIVE has(_), all(_), any(_), _getTestArray(_), _getTestArrayAsAny(_)

hasNoFunctions(args) ==
  LET permission == IF Len(args) > 1 THEN Array(args)
                    ELSE IF Len(args) = 1 THEN args[1]
                    ELSE Node("undefined", 0, <<>>)
  IN IF isArray(permission) THEN all(<<permission>>)
     ELSE IF HasTest(permission) THEN Node("test", permission.p, <<>>)
     ELSE Thrown

hasLenient(args) ==
  LET permission == IF Len(args) > 1 THEN Array(args)
                    ELSE IF Len(args) = 1 THEN args[1]
                    ELSE Node("undefined", 0, <<>>)
  IN IF isArray(permission) THEN all(<<permission>>)
     ELSE IF IsFunctionValue(permission) THEN permission
     ELSE IF HasTest(permission) THEN Node("test", permission.p, <<>>)
     ELSE Node("all", 0, <<>>)

\* has(permission...): args is the arguments object
has(args) ==
  LET permission == IF Len(args) > 1 THEN Array(args)
                    ELSE IF Len(args) = 1 THEN args[1]
                    ELSE Node("undefined", 0, <<>>)
  IN IF isArray(permission) THEN all(<<permission>>)
     ELSE IF IsFunctionValue(permission) THEN permission
     ELSE IF HasTest(permission) THEN Node("test", permission.p, <<>>)
     ELSE Thrown

\* all(permission...)
all(args) ==
  LET permissions == IF Len(args) = 1 /\ isArray(args[1])
                     THEN args[1].kids ELSE args
      tests == _getTestArray(permissions)
  IN IF Threw(tests) THEN Thrown ELSE Node("all", 0, tests)

anyNoNormalize(args) ==
  LET tests == _getTestArray(args)
  IN IF Threw(tests) THEN Thrown ELSE Node("any", 0, tests)

\* any(permission...)
any(args) ==
  LET permissions == IF Len(args) = 1 /\ isArray(args[1])
                     THEN args[1].kids ELSE args
      tests == _getTestArray(permissions)
  IN IF Threw(tests) THEN Thrown ELSE Node("any", 0, tests)

_getTestArrayAsAny(permissions) ==
  [i \in 1..Len(permissions) |->
     IF isArray(permissions[i]) THEN any(<<permissions[i]>>)
     ELSE has(<<permissions[i]>>)]

\* _getTestArray(permissions)
_getTestArray(permissions) ==
  [i \in 1..Len(permissions) |->
     IF isArray(permissions[i]) THEN all(<<permissions[i]>>)
     ELSE has(<<permissions[i]>>)]

middlewareHas(args) ==
  IF Len(args) = 0 THEN Thrown ELSE has(args)
\* the middleware factory, module.exports of middleware.js: the test the
\* middleware it returns runs, or no value when it throws
middleware(args) ==
  IF Len(args) = 0 THEN Thrown                       \* 'Missing permissions'
  ELSE IF Len(args) > 1 THEN any(<<Array(args)>>)
  ELSE has(<<args[1]>>)

(***************************************************************************)
(* Request contexts and permission sets.  A context holds, for every       *)
(* provider, what that provider returns for it: null, undefined, or an     *)
(* object mapping property keys to values ("undefined" for a missing key). *)
(***************************************************************************)
NoEntries == [key \in Keys |-> "undefined"]
NullSet == [v |-> "null", m |-> NoEntries]
UndefinedSet == [v |-> "undefined", m |-> NoEntries]
ObjectSet(m) == [v |-> "object", m |-> m]

\* permissions[key]
Lookup(permissions, key) ==
  IF key \in DOMAIN permissions.m THEN permissions.m[key] ELSE "undefined"

getPermissionsOfUser(ty, req) == req.sets["user"]
\* the provider of a permission type applied to the context req
getPermissions(ty, req) == req.sets[ty]

(***************************************************************************)
(* Evaluations.  An evaluation is one call test(req, done) of a test       *)
(* function; its nodes are addressed by their path from the root.  For     *)
(* each node it records                                                    *)
(*   started    how many times the node's function was called              *)
(*   out        the values the node passed to the callback it was given    *)
(*   greq       the contexts the node passed to getPermissions             *)
(*   vreq       the contexts the node passed to the custom verifier        *)
(*   vout       the values the verifier returned or passed to its callback *)
(*   pending    an asynchronous verifier was called and has not called back*)
(*   completed  async.each's counter of children that called back          *)
(*   decided    async.all / async.any replaced main_callback by a no-op    *)
(***************************************************************************)
RECURSIVE Paths(_)
Paths(t) ==
  {<<>>} \cup
  UNION {{<<i>> \o q : q \in Paths(t.kids[i])} : i \in 1..Len(t.kids)}

RECURSIVE NodeAt(_, _)
NodeAt(t, path) ==
  IF path = <<>> THEN t ELSE NodeAt(t.kids[Head(path)], Tail(path))

Parent(path) == SubSeq(path, 1, Len(path) - 1)

NodeState0 ==
  [started |-> 0, out |-> <<>>, greq |-> <<>>, vreq |-> <<>>, vout |-> <<>>,
   pending |-> FALSE, completed |-> 0, decided |-> FALSE]

NewEval(t, req) ==
  [test |-> t, req |-> req, thrown |-> "",
   st |-> [path \in Paths(t) |-> NodeState0],
   mw |-> FALSE, calls |-> <<>>]

\* a request handled by a middleware: mw tells that the callback given to
\* the test is the middleware's, calls lists the calls that callback made,
\* "next" for next() and "403" for res.sendStatus(403)
NewRequest(t, req) == [NewEval(t, req) EXCEPT !.mw = TRUE]

middlewareCallbackBoth(ev, allow) ==
  IF Truthy(allow) THEN [ev EXCEPT !.calls = @ \o <<"next", "403">>]
  ELSE [ev EXCEPT !.calls = Append(@, "403")]
\* function (allow) { if (allow) { return next(); } res.sendStatus(403); }
middlewareCallback(ev, allow) ==
  IF Truthy(allow) THEN [ev EXCEPT !.calls = Append(@, "next")]
  ELSE [ev EXCEPT !.calls = Append(@, "403")]

\* the callback given to the root test is called with v
Done(ev, v) == IF ev.mw THEN middlewareCallback(ev, v) ELSE ev

(***************************************************************************)
(* async.all(tests, runner, done) and async.any(tests, runner, done), as   *)
(* helper.js calls them (callbacks take the result alone, no error):       *)
(* every test is started in order by async.each; the callback handed to a  *)
(* test calls main_callback(false) (all) or main_callback(true) (any) when *)
(* the result decides the outcome and replaces main_callback by a no-op,   *)
(* then counts the child as completed; when every child has completed,     *)
(* main_callback(true) (all) or main_callback(false) (any) is called.      *)
(***************************************************************************)
\* async.all: a child's result v decides the outcome early
allHitsAlways(v) == TRUE
allHitsNever(v) == FALSE
allHits(v) == ~Truthy(v)
\* async.any: a child's result v decides the outcome early
anyHitsNever(v) == FALSE
anyHits(v) == Truthy(v)

\* the value main_callback gets when a child decides the outcome early
earlyResult(k) == IF k = "all" THEN "false" ELSE "true"
\* the value main_callback gets once every child has called back
finalResultFalse(k) == "false"
finalResultSwapped(k) == IF k = "all" THEN "false" ELSE "true"
finalResult(k) == IF k = "all" THEN "true" ELSE "false"

\* the node at path calls the callback it was given with v: the caller's
\* done for the root, otherwise the callback async.all / async.any handed
\* to the runner of the parent
RECURSIVE Deliver(_, _, _)
DeliverNoOnce(ev, path, v) ==
  LET ev1 == [ev EXCEPT !.st[path].out = Append(@, v)]
  IN IF path = <<>> THEN Done(ev1, v)
     ELSE
       LET par == Parent(path)
           node == NodeAt(ev.test, par)
           hit == IF node.k = "all" THEN allHits(v) ELSE anyHits(v)
           ev2 == IF hit
                  THEN Deliver([ev1 EXCEPT !.st[par].decided = TRUE],
                               par, earlyResult(node.k))
                  ELSE ev1
           ev3 == [ev2 EXCEPT !.st[par].completed = @ + 1]
       IN IF ev3.st[par].completed >= Len(node.kids) /\ ~ev3.st[par].decided
          THEN Deliver(ev3, par, finalResult(node.k))
          ELSE ev3
Deliver(ev, path, v) ==
  LET ev1 == [ev EXCEPT !.st[path].out = Append(@, v)]
  IN IF path = <<>> THEN Done(ev1, v)
     ELSE
       LET par == Parent(path)
           node == NodeAt(ev.test, par)
           hit == IF node.k = "all" THEN allHits(v) ELSE anyHits(v)
           \* main_callback(false | true); main_callback = function () {}
           ev2 == IF hit /\ ~ev1.st[par].decided
                  THEN Deliver([ev1 EXCEPT !.st[par].decided = TRUE],
                               par, earlyResult(node.k))
                  ELSE ev1
           \* callback(): completed += 1
           ev3 == [ev2 EXCEPT !.st[par].completed = @ + 1]
       IN \* completed >= arr.length: main_callback(true | false)
          IF ev3.st[par].completed >= Len(node.kids) /\ ~ev3.st[par].decided
          THEN Deliver(ev3, par, finalResult(node.k))
          ELSE ev3

(***************************************************************************)
(* Permission.prototype.test                                               *)
(***************************************************************************)
\* if (permissions)
HasSetAlways(permissions) == TRUE
HasSet(permissions) == permissions.v = "object"

hasPermissionIfDefined(permission) == permission # "undefined"
\* hasPermission = Boolean(permission)
hasPermission(permission) == Truthy(permission)

isAllowedByDefaultFalsy(this, permission) ==
  ~Truthy(permission) /\ this.allowedByDefault
isAllowedByDefaultAnyEntry(this, permission) == this.allowedByDefault
\* isAllowedByDefault = permission === undefined && this.allowedByDefault
isAllowedByDefault(this, permission) ==
  permission = "undefined" /\ this.allowedByDefault

\* the base check: the set lookup plus the default policy
BaseCheckNoDefault(this, permissions) ==
  HasSet(permissions)
    /\ hasPermission(Lookup(permissions, ToPropertyKey(this.code)))
BaseCheck(this, permissions) ==
  /\ HasSet(permissions)
  /\ LET permission == Lookup(permissions, ToPropertyKey(this.code))
     IN hasPermission(permission) \/ isAllowedByDefault(this, permission)

\* what a passing base check hands to done when a verifier is configured:
\* r is the verifier's outcome, "later" when an asynchronous verifier returns
\* without having called back
VerifyIgnored(ev, path, this, r) == Deliver(ev, path, "true")
VerifyCoerced(ev, path, this, r) ==
  LET ev1 == [ev EXCEPT !.st[path].vreq = Append(@, ev.req)]
      ev2 == [ev1 EXCEPT !.st[path].vout = Append(@, r)]
  IN IF r = "later" /\ Arity(this._test) > 1
     THEN [ev1 EXCEPT !.st[path].pending = TRUE]
     ELSE Deliver(ev2, path, FromBool(Truthy(r)))
Verify(ev, path, this, r) ==
  LET ev1 == [ev EXCEPT !.st[path].vreq = Append(@, ev.req)]
      ev2 == [ev1 EXCEPT !.st[path].vout = Append(@, r)]
  IN IF Arity(this._test) <= 1
     THEN Deliver(ev2, path, r)                       \* done(this._test(req))
     ELSE IF r = "later"                              \* this._test(req, done)
          THEN [ev1 EXCEPT !.st[path].pending = TRUE]
          ELSE Deliver(ev2, path, r)

PermissionTestNoThrow(ev, path, this, r) ==
  LET permissions == IF this.type \in Getters
                     THEN getPermissions(this.type, ev.req)
                     ELSE UndefinedSet
      ev1 == [ev EXCEPT !.st[path].greq = Append(@, ev.req)]
  IN IF BaseCheck(this, permissions)
     THEN IF this._test # "undefined"
          THEN Verify(ev1, path, this, r)
          ELSE Deliver(ev1, path, "true")
     ELSE Deliver(ev1, path, "false")

\* this.test(req, done) for the node at path
PermissionTest(ev, path, this, r) ==
  IF this.type \notin Getters
  THEN [ev EXCEPT !.thrown = "Not implemented"]
  ELSE
    LET permissions == getPermissions(this.type, ev.req)
        ev1 == [ev EXCEPT !.st[path].greq = Append(@, ev.req)]
    IN IF BaseCheck(this, permissions)
       THEN IF this._test # "undefined"
            THEN Verify(ev1, path, this, r)
            ELSE Deliver(ev1, path, "true")
       ELSE Deliver(ev1, path, "false")

(***************************************************************************)
(* Calling a test function: the whole synchronous run of test(req, done).  *)
(* vr gives, for every node, the outcome of its verifier in this run.      *)
(* A throw unwinds the stack: nothing after it runs.                       *)
(***************************************************************************)
\* the outcome vr gives the verifier of the node at path
OutcomeAt(vr, path) == IF path \in DOMAIN vr THEN vr[path] ELSE "none"

RECURSIVE Run(_, _, _), RunKids(_, _, _, _)

Run(ev, path, vr) ==
  IF ev.thrown # "" THEN ev
  ELSE
    LET node == NodeAt(ev.test, path)
        ev1 == [ev EXCEPT !.st[path].started = @ + 1]
    IN IF node.k = "test"
       THEN PermissionTest(ev1, path, perms[node.p], OutcomeAt(vr, path))
       ELSE IF Len(node.kids) = 0
       THEN Deliver(ev1, path, finalResult(node.k))   \* async.each: !arr.length
       ELSE RunKids(ev1, path, 1, vr)

\* async.each: iterator(x, only_once(done)) for every x, in order
RunKids(ev, path, i, vr) ==
  IF i > Len(NodeAt(ev.test, path).kids) THEN ev
  ELSE RunKids(Run(ev, path \o <<i>>, vr), path, i + 1, vr)

\* the nodes of t that call a verifier of the given kind
VerifierPaths(t, kind) ==
  {path \in Paths(t) :
     NodeAt(t, path).k = "test" /\ perms[NodeAt(t, path).p]._test = kind}

\* the outcomes the verifiers can have in one run: a synchronous verifier
\* returns a value, an asynchronous one calls back at once with a value or
\* returns first ("later")
Outcomes(t, Vals) ==
  {f @@ g : f \in [VerifierPaths(t, "fn1") -> Vals],
            g \in [VerifierPaths(t, "fn2") -> Vals \cup {"later"}]}

\* test(req, done) for the test function t
StartEval(t, req, vr) ==
  /\ Len(evals) < MaxEvals
  /\ evals' = Append(evals, Run(NewEval(t, req), <<>>, vr))
  /\ error' = evals'[Len(evals')].thrown
  /\ UNCHANGED <<codes, perms, built, resets>>

\* perms[p].test(req, done)
TestPerm(p, Reqs, Vals) ==
  \E req \in Reqs : \E vr \in Outcomes(Node("test", p, <<>>), Vals) :
    /\ StartEval(Node("test", p, <<>>), req, vr)
    /\ call' = OtherCall("test")

\* built[b].fn(req, done)
CallBuilt(b, Reqs, Vals) ==
  \E req \in Reqs : \E vr \in Outcomes(built[b].fn, Vals) :
    /\ StartEval(built[b].fn, req, vr)
    /\ call' = OtherCall("call")

VerifierCallbackLost(e, path, v) ==
  /\ evals[e].st[path].pending
  /\ evals' = [evals EXCEPT ![e].st[path].pending = FALSE,
                            ![e].st[path].vout = Append(@, v)]
  /\ error' = ""
  /\ call' = OtherCall("callback")
  /\ UNCHANGED <<codes, perms, built, resets>>

VerifierCallbackShared(e, path, v) ==
  /\ evals[e].st[path].pending
  /\ evals' = [f \in DOMAIN evals |->
       IF f = e
       THEN Deliver([evals[f] EXCEPT !.st[path].pending = FALSE,
                                     !.st[path].vout = Append(@, v)],
                    path, v)
       ELSE IF path # <<>> /\ path \in DOMAIN evals[f].st
       THEN [evals[f] EXCEPT !.st[Parent(path)].decided = TRUE]
       ELSE evals[f]]
  /\ error' = ""
  /\ call' = OtherCall("callback")
  /\ UNCHANGED <<codes, perms, built, resets>>

\* the asynchronous verifier of the node at path of evaluation e calls back
VerifierCallback(e, path, v) ==
  /\ evals[e].st[path].pending
  /\ evals' = [evals EXCEPT ![e] =
       Deliver([evals[e] EXCEPT !.st[path].pending = FALSE,
                                !.st[path].vout = Append(@, v)], path, v)]
  /\ error' = ""
  /\ call' = OtherCall("callback")
  /\ UNCHANGED <<codes, perms, built, resets>>

(***************************************************************************)
(* Inputs.                                                                 *)
(***************************************************************************)
\* the permission sets whose entries for the keys Ks are drawn from Vals
PermSets(Ks, Vals) ==
  {NullSet, UndefinedSet} \cup
  {ObjectSet(m) : m \in {f \in [Keys -> Vals \cup {"undefined"}] :
                           \A key \in Keys \ Ks : f[key] = "undefined"}}

\* the contexts that give the providers Gs a permission set over Ks
Contexts(Gs, Ks, Vals) ==
  {[sets |-> f] : f \in {g \in [Getters -> PermSets(Ks, Vals)] :
                           \A x \in Getters \ Gs : g[x] = NullSet}}

\* the contexts that exercise the permissions ps
ContextsFor(ps, Vals) ==
  Contexts({perms[p].type : p \in ps} \cap Getters,
           {ToPropertyKey(perms[p].code) : p \in ps}, Vals)

(***************************************************************************)
(* Spec: the registry of used codes over the life of the process.          *)
(***************************************************************************)
Init ==
  /\ codes = <<>>
  /\ perms = <<>>
  /\ built = <<>>
  /\ call = OtherCall("load")
  /\ error = ""
  /\ resets = FALSE
  /\ evals = <<>>

RegTypes == {"base", create("user")}
RegCodes == {Num("0"), Num("1"), Str("1"), Str(""), Undef}
RegDefaults == {"true", "false"}
RegTests == {"undefined", "fn1", "string"}

NextConstruct ==
  \E ty \in RegTypes, code \in RegCodes, allowedByDefault \in RegDefaults,
     test \in RegTests :
    Construct(ty, code, allowedByDefault, test)

Next == NextConstruct \/ Reset

Spec == Init /\ [][Next]_vars

(***************************************************************************)
(* SpecTest: one constructor call on a fresh registry, then evaluations of *)
(* Permission.prototype.test on the instance it returned.                  *)
(***************************************************************************)
InitTest ==
  \E ty \in Types, code \in CodeArgs, allowedByDefault \in RegDefaults,
     test \in TestArgs :
    LET r == PermissionCtor(<<>>, ty, code, allowedByDefault, test)
    IN /\ codes = r.codes
       /\ perms = r.made
       /\ error = r.error
       /\ call = NewCall(ty, code, test)
       /\ built = <<>>
       /\ resets = FALSE
       /\ evals = <<>>

NextTestPerm ==
  \E p \in 1..Len(perms) : TestPerm(p, ContextsFor({p}, JSVal), JSVal)

NextCallback ==
  \E e \in 1..Len(evals) : \E path \in Paths(evals[e].test) :
    \E v \in JSVal : VerifierCallback(e, path, v)

NextTest == NextTestPerm \/ NextCallback

SpecTest == InitTest /\ [][NextTest]_vars

(***************************************************************************)
(* SpecComb: a catalog of three permissions and one test function built    *)
(* over them at load time, then evaluations of that test function.         *)
(***************************************************************************)
\* the verifiers of the three permissions of a catalog
Catalogs ==
  {<<"undefined", "fn1", "fn2">>, <<"fn2", "undefined", "fn1">>,
   <<"fn2", "fn2", "undefined">>}

\* the registry and the instances after the catalog c is constructed
CatalogCtor(c) ==
  LET r1 == PermissionCtor(<<>>, create("user"), Num("0"), "false", c[1])
      r2 == PermissionCtor(r1.codes, create("user"), Num("1"), "false", c[2])
      r3 == PermissionCtor(r2.codes, create("user"), Num("2"), "false", c[3])
  IN [codes |-> r3.codes, made |-> r1.made \o r2.made \o r3.made]

P1 == PermObj(1)
P2 == PermObj(2)
P3 == PermObj(3)

\* the calls of the combinators made at load time
Shapes ==
  {[op |-> "all", args |-> <<P1, P2, P3>>],
   [op |-> "all", args |-> <<Array(<<P1, P2, P3>>)>>],
   [op |-> "all", args |-> <<Array(<<P1, P2>>), P3>>],
   [op |-> "all", args |-> <<P1, any(<<P2, P3>>)>>],
   [op |-> "all", args |-> <<P1, any(<<P1, P2, P3>>)>>],
   [op |-> "all", args |-> <<>>],
   [op |-> "all", args |-> <<P1, AString>>],
   [op |-> "any", args |-> <<P1, P2, P3>>],
   [op |-> "any", args |-> <<Array(<<P1, P2, P3>>)>>],
   [op |-> "any", args |-> <<Array(<<P1, P2>>), P3>>],
   [op |-> "any", args |-> <<P1, Array(<<P2, P3>>)>>],
   [op |-> "any", args |-> <<Array(<<Array(<<P1, P2>>)>>), P3>>],
   [op |-> "any", args |-> <<all(<<P1, P2>>), P3>>],
   [op |-> "any", args |-> <<Array(<<>>)>>],
   [op |-> "any", args |-> <<Array(<<P1, AString>>), P2>>],
   [op |-> "has", args |-> <<P1>>],
   [op |-> "has", args |-> <<P1, P2, P3>>],
   [op |-> "has", args |-> <<Array(<<P1, P2, P3>>)>>],
   [op |-> "has", args |-> <<any(<<P1, P2, P3>>)>>],
   [op |-> "has", args |-> <<AString>>]}

\* the call sh of a combinator
Build(sh) ==
  IF sh.op = "has" THEN has(sh.args)
  ELSE IF sh.op = "all" THEN all(sh.args)
  ELSE any(sh.args)

InitComb ==
  \E c \in Catalogs, sh \in Shapes :
    /\ codes = CatalogCtor(c).codes
    /\ perms = CatalogCtor(c).made
    /\ built = IF Build(sh).k = "throw" THEN <<>>
               ELSE <<[call |-> sh, fn |-> Build(sh)]>>
    /\ error = IF Build(sh).k = "throw" THEN "Invalid permission" ELSE ""
    /\ call = BuildCall(sh.op, sh.args)
    /\ resets = FALSE
    /\ evals = <<>>

\* the permissions a test function evaluates
Leaves(t) ==
  {NodeAt(t, path).p : path \in {q \in Paths(t) : NodeAt(t, q).k = "test"}}

NextCallBuilt ==
  \E b \in 1..Len(built) :
    CallBuilt(b, ContextsFor(Leaves(built[b].fn), {"true"}), BoolVal)

NextCallbackBool ==
  \E e \in 1..Len(evals) : \E path \in Paths(evals[e].test) :
    \E v \in BoolVal : VerifierCallback(e, path, v)

NextComb == NextCallBuilt \/ NextCallbackBool

SpecComb == InitComb /\ [][NextComb]_vars

(***************************************************************************)
(* Properties of Permission.prototype.test (checked under SpecTest).       *)
(***************************************************************************)
\* the evaluations that call the test of a permission with a provider
PermEvals ==
  {e \in 1..Len(evals) :
     evals[e].test.k = "test" /\ perms[evals[e].test.p].type \in Getters}

This(e) == perms[evals[e].test.p]
\* the permission set the provider returns in evaluation e
SetOf(e) == evals[e].req.sets[This(e).type]
\* the entry of that set for the permission's code
EntryOf(e) == Lookup(SetOf(e), ToPropertyKey(This(e).code))
\* what evaluation e has delivered to its caller, and its root node
Delivered(e) == evals[e].st[<<>>].out
Root(e) == evals[e].st[<<>>]

\* the base check as the specification states it: an explicit true grants,
\* an absent entry grants iff the permission is allowed by default
SpecGrants(e) ==
  /\ SetOf(e).v = "object"
  /\ \/ EntryOf(e) = "true"
     \/ EntryOf(e) = "undefined" /\ This(e).allowedByDefault

\* the base check denies: no set, an entry that is not truthy, or no entry
\* and no default allow
SpecDenies(e) ==
  \/ SetOf(e).v # "object"
  \/ EntryOf(e) \in {"false", "null", "zero", "empty"}
  \/ EntryOf(e) = "undefined" /\ ~This(e).allowedByDefault

\* C1: a permission allowed by default delivers false whenever the set maps
\* its code to false, with or without a verifier
C1_ExplicitDenialOverridesDefault ==
  \A e \in PermEvals :
    (This(e).allowedByDefault /\ SetOf(e).v = "object"
       /\ EntryOf(e) = "false")
    => Delivered(e) = <<"false">>

C1_Witness ==
  \E e \in PermEvals :
    /\ This(e).allowedByDefault /\ This(e)._test # "undefined"
    /\ SetOf(e).v = "object" /\ EntryOf(e) = "false"
    /\ Delivered(e) = <<"false">>

\* C2: without a verifier and with a set of boolean entries, test delivers
\* true iff the entry is true, or the entry is absent and the permission is
\* allowed by default
C2_DefaultAndExplicit ==
  \A e \in PermEvals :
    (This(e)._test = "undefined" /\ SetOf(e).v = "object"
       /\ EntryOf(e) \in {"true", "false", "undefined"})
    => Delivered(e) =
         <<FromBool(EntryOf(e) = "true"
                    \/ (EntryOf(e) = "undefined"
                          /\ This(e).allowedByDefault))>>

C2_Witness ==
  \E e \in PermEvals :
    /\ This(e)._test = "undefined" /\ This(e).allowedByDefault
    /\ SetOf(e).v = "object" /\ EntryOf(e) = "undefined"
    /\ Delivered(e) = <<"true">>

\* C3: a null or absent permission set delivers false, whatever the default
\* and the verifier, and the verifier is not called
C3_NullSetDenies ==
  \A e \in PermEvals :
    SetOf(e).v # "object"
    => /\ Delivered(e) = <<"false">>
       /\ Root(e).vreq = <<>>
       /\ ~Root(e).pending

C3_Witness ==
  \E e \in PermEvals :
    /\ SetOf(e).v = "null"
    /\ This(e).allowedByDefault /\ This(e)._test # "undefined"
    /\ Delivered(e) = <<"false">> /\ Root(e).vreq = <<>>

\* C4: when the base check denies, the verifier is never called and the
\* result is false
C4_NoVerifierOnDenial ==
  \A e \in PermEvals :
    SpecDenies(e)
    => /\ Delivered(e) = <<"false">>
       /\ Root(e).vreq = <<>>
       /\ Root(e).vout = <<>>
       /\ ~Root(e).pending

C4_Witness ==
  \E e \in PermEvals :
    /\ This(e)._test = "fn2" /\ This(e).allowedByDefault
    /\ SetOf(e).v = "object" /\ EntryOf(e) = "false"
    /\ Root(e).vreq = <<>> /\ Delivered(e) = <<"false">>

\* C5: when the base check grants and a verifier is configured, the
\* verifier is called exactly once with the context given to test, and what
\* test delivers is what the verifier returned or passed to its callback
C5_VerifierDecides ==
  \A e \in PermEvals :
    (SpecGrants(e) /\ This(e)._test # "undefined")
    => /\ Root(e).vreq = <<evals[e].req>>
       /\ Delivered(e) = Root(e).vout
       /\ IF Root(e).pending THEN Delivered(e) = <<>>
          ELSE Len(Delivered(e)) = 1

C5_Witness ==
  \E e \in PermEvals :
    /\ This(e)._test = "fn2" /\ This(e).allowedByDefault
    /\ SetOf(e).v = "object" /\ EntryOf(e) = "undefined"
    /\ ~Root(e).pending
    /\ Root(e).vout = <<"false">> /\ Delivered(e) = <<"false">>

(***************************************************************************)
(* Properties of the combinators (checked under SpecComb).                 *)
(***************************************************************************)
AllEvals == 1..Len(evals)
\* the nodes of evaluation e built by the combinator k
NodesOf(e, k) ==
  {path \in Paths(evals[e].test) : NodeAt(evals[e].test, path).k = k}
KidsOf(e, path) == 1..Len(NodeAt(evals[e].test, path).kids)
\* what the node at path has delivered to its callback
NodeOut(e, path) == evals[e].st[path].out
\* the i-th child of the node at path has delivered a grant / a denial
ChildGrants(e, path, i) ==
  LET out == NodeOut(e, path \o <<i>>) IN out # <<>> /\ Truthy(out[1])
ChildDenies(e, path, i) ==
  LET out == NodeOut(e, path \o <<i>>) IN out # <<>> /\ ~Truthy(out[1])

\* C6: a test built by all delivers true iff every child delivers a grant,
\* and delivers false if at least one child denies
C6_AllIsConjunction ==
  \A e \in AllEvals : \A path \in NodesOf(e, "all") :
    /\ NodeOut(e, path) = <<"true">>
         <=> \A i \in KidsOf(e, path) : ChildGrants(e, path, i)
    /\ (\E i \in KidsOf(e, path) : ChildDenies(e, path, i))
         => NodeOut(e, path) = <<"false">>

C6_Witness ==
  \E e \in AllEvals :
    /\ evals[e].test.k = "all" /\ Len(evals[e].test.kids) = 3
    /\ ChildGrants(e, <<>>, 1) /\ ChildDenies(e, <<>>, 2)
    /\ ChildGrants(e, <<>>, 3)
    /\ evals[e].st[<<3>>].vout = <<"true">>
    /\ NodeOut(e, <<>>) = <<"false">>

\* C7: a test built by any delivers true iff at least one child delivers a
\* grant, and delivers false only if every child denies
C7_AnyIsDisjunction ==
  \A e \in AllEvals : \A path \in NodesOf(e, "any") :
    /\ NodeOut(e, path) = <<"true">>
         <=> \E i \in KidsOf(e, path) : ChildGrants(e, path, i)
    /\ NodeOut(e, path) = <<"false">>
         <=> \A i \in KidsOf(e, path) : ChildDenies(e, path, i)

C7_Witness ==
  \E e \in AllEvals :
    /\ evals[e].test.k = "any" /\ Len(evals[e].test.kids) = 3
    /\ ChildDenies(e, <<>>, 1) /\ ChildDenies(e, <<>>, 2)
    /\ ChildGrants(e, <<>>, 3)
    /\ evals[e].st[<<3>>].vout = <<"true">>
    /\ NodeOut(e, <<>>) = <<"true">>

\* the test of permission p has delivered in evaluation e / delivered a grant
LeafDone(e, p) ==
  \E path \in NodesOf(e, "test") :
    NodeAt(evals[e].test, path).p = p /\ NodeOut(e, path) # <<>>
LeafGrants(e, p) ==
  \E path \in NodesOf(e, "test") :
    /\ NodeAt(evals[e].test, path).p = p
    /\ NodeOut(e, path) # <<>> /\ Truthy(NodeOut(e, path)[1])

\* the calls that pass an array as one child among others
AnyArrayFirst == [op |-> "any", args |-> <<Array(<<P1, P2>>), P3>>]
AnyArrayLast == [op |-> "any", args |-> <<P1, Array(<<P2, P3>>)>>]
AnyArrayDeep ==
  [op |-> "any", args |-> <<Array(<<Array(<<P1, P2>>)>>), P3>>]
AllArrayFirst == [op |-> "all", args |-> <<Array(<<P1, P2>>), P3>>]

\* the evaluations of the test function built by the call sh, in which the
\* three permissions have all delivered
DoneEvalsOf(sh) ==
  {e \in AllEvals :
     /\ \E b \in 1..Len(built) :
          built[b].call = sh /\ built[b].fn = evals[e].test
     /\ \A p \in 1..3 : LeafDone(e, p)}

\* C8: an array among the checkables of all or any is an ALL group:
\* any([p1, p2], p3) is (p1 and p2) or p3, all([p1, p2], p3) is p1 and p2
\* and p3
C8_NestedArraysAreAllGroups ==
  /\ \A e \in DoneEvalsOf(AnyArrayFirst) \cup DoneEvalsOf(AnyArrayDeep) :
       Delivered(e) = <<FromBool((LeafGrants(e, 1) /\ LeafGrants(e, 2))
                                 \/ LeafGrants(e, 3))>>
  /\ \A e \in DoneEvalsOf(AnyArrayLast) :
       Delivered(e) = <<FromBool(LeafGrants(e, 1)
                                 \/ (LeafGrants(e, 2) /\ LeafGrants(e, 3)))>>
  /\ \A e \in DoneEvalsOf(AllArrayFirst) :
       Delivered(e) = <<FromBool(LeafGrants(e, 1) /\ LeafGrants(e, 2)
                                 /\ LeafGrants(e, 3))>>

C8_Witness ==
  \E e \in DoneEvalsOf(AnyArrayFirst) :
    /\ LeafGrants(e, 1) /\ ~LeafGrants(e, 2) /\ ~LeafGrants(e, 3)
    /\ Delivered(e) = <<"false">>

(***************************************************************************)
(* Properties of the constructor and the registry.                         *)
(***************************************************************************)
\* some instance constructed so far holds the code
CodeOfInstance(code) == \E i \in 1..Len(perms) : perms[i].code = code

\* a constructor call whose code is the code of an instance constructed
\* earlier fails with 'Duplicate permission code' and constructs nothing
DuplicateRejected ==
  (call'.op = "new" /\ ~resets' /\ CodeOfInstance(call'.code))
  => /\ error' = "Duplicate permission code"
     /\ perms' = perms
     /\ codes' = codes

\* no two instances share a code
UniqueCodes ==
  \A i, j \in 1..Len(perms) : perms[i].code = perms[j].code => i = j

\* C9: without a reset of the registry, a construction with the code of an
\* earlier successful construction fails with 'Duplicate permission code',
\* whatever the types, so no two instances share a code
C9_DuplicateCodeRejected ==
  [][DuplicateRejected]_vars /\ [](~resets => UniqueCodes)

C9_Witness ==
  /\ ~resets
  /\ call.op = "new" /\ error = "Duplicate permission code"
  /\ \E i \in 1..Len(perms) :
       perms[i].code = call.code /\ perms[i].type # call.type

\* without a verifier, what the test of the permission delivers for the
\* entry its set holds under the property key
LooksUp(e, key) ==
  LET entry == SetOf(e).m[key]
  IN Delivered(e) =
       <<FromBool(entry = "true"
                  \/ (entry = "undefined" /\ This(e).allowedByDefault))>>

\* C10: the constructor fails with 'Missing permission code' when the code
\* is undefined or empty and not when it is 0: Permission(0, ...) succeeds,
\* registers 0, and its test looks up entry 0 of the permission set
C10_ZeroIsAValidCode ==
  /\ (call.op = "new" /\ call.code \in {Undef, Str("")})
       => error = "Missing permission code" /\ perms = <<>> /\ codes = <<>>
  /\ (call.op = "new" /\ call.code = Num("0"))
       => /\ error # "Missing permission code"
          /\ codes = <<Num("0")>>
          /\ (~TruthyArg(call.test) \/ IsFunction(call.test))
               => /\ error = ""
                  /\ Len(perms) = 1 /\ perms[1].code = Num("0")
  /\ \A e \in PermEvals :
       (This(e).code = Num("0") /\ This(e)._test = "undefined"
          /\ SetOf(e).v = "object"
          /\ SetOf(e).m["0"] \in {"true", "false", "undefined"})
       => LooksUp(e, "0")

C10_Witness ==
  /\ codes = <<Num("0")>>
  /\ \E e \in PermEvals :
       /\ This(e).code = Num("0") /\ This(e)._test = "undefined"
       /\ ~This(e).allowedByDefault
       /\ SetOf(e).v = "object" /\ SetOf(e).m["0"] = "true"
       /\ Delivered(e) = <<"true">>

(***************************************************************************)
(* The verifier argument of the constructor (checked under SpecTest).      *)
(***************************************************************************)
\* the third arguments that are provided and are not callable
NonCallableArgs == {"string", "zero", "false", "null", "object"}

\* C11 as stated: every third argument that is not callable (a string, 0,
\* false, null, an object) makes the constructor fail with 'Invalid
\* permission test' and produce no permission
C11_EveryNonCallableRejected ==
  (call.op = "new" /\ ~MissingCode(call.code)
     /\ call.test \in NonCallableArgs)
  => error = "Invalid permission test" /\ perms = <<>>

\* C11 amended: a truthy third argument that is not a function makes the
\* constructor fail with 'Invalid permission test' and produce no
\* permission; a falsy one (0, false, null) is treated as not provided and
\* the constructor returns a permission without a verifier
C11_TruthyNonCallableRejected ==
  (call.op = "new" /\ ~MissingCode(call.code))
  => /\ call.test \in {"string", "object"}
          => error = "Invalid permission test" /\ perms = <<>>
     /\ call.test \in {"zero", "false", "null"}
          => /\ error = ""
             /\ Len(perms) = 1 /\ perms[1]._test = "undefined"

C11_Witness ==
  /\ call.op = "new" /\ call.test = "object" /\ call.code = Num("1")
  /\ error = "Invalid permission test" /\ perms = <<>>

(***************************************************************************)
(* Delivery of the combinators' results (checked under SpecComb).          *)
(***************************************************************************)
Composites(e) == NodesOf(e, "all") \cup NodesOf(e, "any")

\* the nodes built by all or any whose children have each delivered once
DoneNodes(e) ==
  {path \in Composites(e) :
     \A i \in KidsOf(e, path) : Len(NodeOut(e, path \o <<i>>)) = 1}

\* the AND (all) or the OR (any) of what the children of the node delivered
AndOr(e, path) ==
  IF NodeAt(evals[e].test, path).k = "all"
  THEN \A i \in KidsOf(e, path) : ChildGrants(e, path, i)
  ELSE \E i \in KidsOf(e, path) : ChildGrants(e, path, i)

\* C12: whatever the mix of permissions without verifier, with synchronous
\* and with asynchronous verifiers, and whatever the order in which the
\* verifiers call back, once its children have delivered a test built by
\* all (any) has delivered the AND (OR) of their outcomes
C12_CompositeIsAndOr ==
  \A e \in AllEvals : \A path \in DoneNodes(e) :
    NodeOut(e, path) = <<FromBool(AndOr(e, path))>>

C12_Witness ==
  \E e \in AllEvals :
    /\ evals[e].test.k = "any" /\ Len(evals[e].test.kids) = 3
    /\ <<>> \in DoneNodes(e)
    /\ perms[1]._test = "fn2" /\ perms[2]._test = "undefined"
    /\ perms[3]._test = "fn1"
    /\ call.op = "callback"
    /\ ChildGrants(e, <<>>, 1) /\ ChildDenies(e, <<>>, 2)
    /\ ChildDenies(e, <<>>, 3)
    /\ evals[e].st[<<3>>].vout = <<"false">>
    /\ NodeOut(e, <<>>) = <<"true">>

\* a test built by all or any has called the callback it was given at most
\* once, and once when each of its children has delivered
DeliversOnce ==
  \A e \in AllEvals : \A path \in Composites(e) :
    /\ Len(NodeOut(e, path)) <= 1
    /\ path \in DoneNodes(e) => Len(NodeOut(e, path)) = 1

\* what a test built by all or any has delivered stays what it is
DeliveredStays ==
  \A e \in AllEvals : \A path \in Composites(e) :
    NodeOut(e, path) # <<>> => evals'[e].st[path].out = NodeOut(e, path)

\* C13: with children that each deliver once, a test built by all or any
\* calls its caller's callback exactly once per evaluation; deliveries of
\* the remaining children after the result was decided neither call it
\* again nor change the result
C13_CallbackExactlyOnce == []DeliversOnce /\ [][DeliveredStays]_vars

C13_Witness ==
  \E e \in AllEvals :
    /\ evals[e].test.k = "all" /\ Len(evals[e].test.kids) = 3
    /\ <<>> \in DoneNodes(e)
    /\ call.op = "callback"
    /\ ChildDenies(e, <<>>, 1) /\ ChildDenies(e, <<>>, 2)
    /\ ChildDenies(e, <<>>, 3)
    /\ Root(e).completed = 3
    /\ NodeOut(e, <<>>) = <<"false">>

\* the children of the node at path that have not delivered yet
Outstanding(e, path) ==
  {i \in KidsOf(e, path) : NodeOut(e, path \o <<i>>) = <<>>}

\* C14: while some of its children are still outstanding, a test built by
\* any has delivered true if one child has delivered a grant, and a test
\* built by all has delivered false if one child has delivered a denial
C14_DecidedWithoutWaiting ==
  \A e \in AllEvals : \A path \in Composites(e) :
    Outstanding(e, path) # {}
    => IF NodeAt(evals[e].test, path).k = "any"
       THEN (\E i \in KidsOf(e, path) : ChildGrants(e, path, i))
              => NodeOut(e, path) = <<"true">>
       ELSE (\E i \in KidsOf(e, path) : ChildDenies(e, path, i))
              => NodeOut(e, path) = <<"false">>

C14_Witness ==
  \E e \in AllEvals :
    /\ evals[e].test.k = "all" /\ Len(evals[e].test.kids) = 3
    /\ evals[e].st[<<1>>].pending /\ 1 \in Outstanding(e, <<>>)
    /\ evals[e].st[<<2>>].pending /\ 2 \in Outstanding(e, <<>>)
    /\ ChildDenies(e, <<>>, 3)
    /\ NodeOut(e, <<>>) = <<"false">>

\* the node at path is the test of a permission that delivers before its
\* test returns: it has no verifier or a synchronous one
SyncLeaf(e, path) ==
  LET node == NodeAt(evals[e].test, path)
  IN node.k = "test" /\ perms[node.p]._test # "fn2"

\* the node at path was not called: no provider and no verifier under it ran
NotEvaluated(e, path) ==
  /\ evals[e].st[path].started = 0
  /\ evals[e].st[path].greq = <<>>
  /\ evals[e].st[path].vreq = <<>>

\* the i-th child of the node at path has delivered the result that decides
\* the node: a denial for all, a grant for any
Decides(e, path, i) ==
  IF NodeAt(evals[e].test, path).k = "all"
  THEN ChildDenies(e, path, i) ELSE ChildGrants(e, path, i)

\* C15: in a test built by all, the children after a child that delivered
\* false are not evaluated, and in a test built by any the children after a
\* child that delivered true are not evaluated (stated for a deciding child
\* that delivers synchronously, before any later child could be started)
C15_LaterChildrenNotEvaluated ==
  \A e \in AllEvals : \A path \in Composites(e) :
    \A i, j \in KidsOf(e, path) :
      (i < j /\ SyncLeaf(e, path \o <<i>>) /\ Decides(e, path, i))
      => NotEvaluated(e, path \o <<j>>)

(***************************************************************************)
(* SpecVal: as SpecComb, for verifiers that return or call back with       *)
(* values that are not booleans.                                           *)
(***************************************************************************)
\* what a verifier returns or passes to its callback: a boolean, a truthy
\* value that is not true ('foo'), a falsy value that is not false (0)
VerifierVals == {"true", "false", "foo", "zero"}

ValShapes ==
  {[op |-> "has", args |-> <<P1>>],
   [op |-> "has", args |-> <<P2>>],
   [op |-> "has", args |-> <<P1, P2, P3>>],
   [op |-> "all", args |-> <<P1, P2, P3>>],
   [op |-> "any", args |-> <<P1, P2, P3>>],
   [op |-> "all", args |-> <<P1, any(<<P2, P3>>)>>]}

\* the catalogs that mix a permission without verifier, one with a
\* synchronous and one with an asynchronous verifier
ValCatalogs ==
  {<<"undefined", "fn1", "fn2">>, <<"fn2", "undefined", "fn1">>}

InitVal ==
  \E c \in ValCatalogs, sh \in ValShapes :
    /\ codes = CatalogCtor(c).codes
    /\ perms = CatalogCtor(c).made
    /\ built = <<[call |-> sh, fn |-> Build(sh)]>>
    /\ error = ""
    /\ call = BuildCall(sh.op, sh.args)
    /\ resets = FALSE
    /\ evals = <<>>

NextCallBuiltVal ==
  \E b \in 1..Len(built) :
    CallBuilt(b, ContextsFor(Leaves(built[b].fn), {"true"}), VerifierVals)

NextCallbackVal ==
  \E e \in 1..Len(evals) : \E path \in Paths(evals[e].test) :
    \E v \in VerifierVals : VerifierCallback(e, path, v)

NextVal == NextCallBuiltVal \/ NextCallbackVal

SpecVal == InitVal /\ [][NextVal]_vars

(***************************************************************************)
(* The values delivered (checked under SpecVal).                           *)
(***************************************************************************)
\* every value the node at path has passed to its callback is true or false
BooleansOnly(e, path) ==
  \A k \in 1..Len(NodeOut(e, path)) : NodeOut(e, path)[k] \in BoolVal

RECURSIVE HasInvalid(_)
HasInvalid(c) ==
  \/ ~(isArray(c) \/ IsFunctionValue(c) \/ HasTest(c))
  \/ isArray(c) /\ \E i \in 1..Len(c.kids) : HasInvalid(c.kids[i])

InvalidArgs(args) == \E i \in 1..Len(args) : HasInvalid(args[i])

Builders == {"has", "all", "any"}

\* C17: has, all and any throw 'Invalid permission' when they are called
\* with a checkable that, at any depth, is neither a function, nor a
\* permission, nor an array: no test function is returned and nothing is
\* evaluated; a test function that was returned never throws that error
C17_InvalidCheckableFailsAtBuild ==
  /\ (call.op \in Builders /\ InvalidArgs(call.args))
       => error = "Invalid permission" /\ built = <<>> /\ evals = <<>>
  /\ error = "Invalid permission"
       => call.op \in Builders /\ InvalidArgs(call.args)
  /\ \A b \in 1..Len(built) :
       ~InvalidArgs(built[b].call.args) /\ IsFunctionValue(built[b].fn)
  /\ \A e \in AllEvals : evals[e].thrown # "Invalid permission"

C17_Witness ==
  /\ call.op = "any" /\ call.args = <<Array(<<P1, AString>>), P2>>
  /\ error = "Invalid permission"
  /\ built = <<>> /\ evals = <<>>

\* the calls with the three permissions as arguments, and with one array
\* of them as the only argument
AllOfArgs == [op |-> "all", args |-> <<P1, P2, P3>>]
AllOfArray == [op |-> "all", args |-> <<Array(<<P1, P2, P3>>)>>]
AnyOfArgs == [op |-> "any", args |-> <<P1, P2, P3>>]
AnyOfArray == [op |-> "any", args |-> <<Array(<<P1, P2, P3>>)>>]
HasOfArgs == [op |-> "has", args |-> <<P1, P2, P3>>]
HasOfArray == [op |-> "has", args |-> <<Array(<<P1, P2, P3>>)>>]

\* the test function the call sh returned, when it is the one built
FnOf(sh) == {built[b].fn : b \in {c \in 1..Len(built) : built[c].call = sh}}

GrantsAll(e) == LeafGrants(e, 1) /\ LeafGrants(e, 2) /\ LeafGrants(e, 3)
GrantsAny(e) == LeafGrants(e, 1) \/ LeafGrants(e, 2) \/ LeafGrants(e, 3)

\* C18: a combinator called with one array takes the array as its list of
\* checkables: all([a, b, c]) is the test all(a, b, c) and any([a, b, c])
\* the test any(a, b, c), an ANY over a, b and c; has(a, b, c) and
\* has([a, b, c]) are the test all(a, b, c)
C18_SingleArrayIsTheList ==
  /\ \A sh \in {AllOfArgs, AllOfArray, HasOfArgs, HasOfArray} :
       /\ \A fn \in FnOf(sh) :
            fn.k = "all" /\ Len(fn.kids) = 3
              /\ \A i \in 1..3 : fn.kids[i] = Node("test", i, <<>>)
       /\ \A e \in DoneEvalsOf(sh) : Delivered(e) = <<FromBool(GrantsAll(e))>>
  /\ \A sh \in {AnyOfArgs, AnyOfArray} :
       /\ \A fn \in FnOf(sh) :
            fn.k = "any" /\ Len(fn.kids) = 3
              /\ \A i \in 1..3 : fn.kids[i] = Node("test", i, <<>>)
       /\ \A e \in DoneEvalsOf(sh) : Delivered(e) = <<FromBool(GrantsAny(e))>>

C18_Witness ==
  \E e \in DoneEvalsOf(AnyOfArray) :
    /\ ~LeafGrants(e, 1) /\ LeafGrants(e, 2) /\ ~LeafGrants(e, 3)
    /\ Delivered(e) = <<"true">>

\* the node at path has delivered a grant
PathGrants(e, path) ==
  NodeOut(e, path) # <<>> /\ Truthy(NodeOut(e, path)[1])

\* a test function built by any, passed to has and to all
AnyOfThree == any(<<P1, P2, P3>>)
HasOfFunction == [op |-> "has", args |-> <<AnyOfThree>>]
AllOfNested == [op |-> "all", args |-> <<P1, AnyOfThree>>]

\* the evaluations of the test function the call sh returned
EvalsOf(sh) == {e \in AllEvals : evals[e].test \in FnOf(sh)}

\* C19: has(f) of a function f is f itself, so a test built by any can be a
\* child of all and keeps its meaning: all(p, any(p1, p2, p3)) grants iff p
\* grants and at least one of p1, p2, p3 grants
C19_FunctionsPassThrough ==
  /\ (call.op = "has" /\ Len(call.args) = 1
        /\ IsFunctionValue(call.args[1]))
       => error = "" /\ built = <<[call |-> HasOfFunction,
                                   fn |-> call.args[1]]>>
  /\ \A fn \in FnOf(HasOfFunction) : fn = AnyOfThree
  /\ (call.op = "all" /\ call.args = AllOfNested.args)
       => error = "" /\ Len(built) = 1
  /\ \A fn \in FnOf(AllOfNested) : fn.k = "all" /\ fn.kids[2] = AnyOfThree
  /\ \A e \in EvalsOf(AllOfNested) :
       /\ Delivered(e) = <<"true">>
            <=> /\ PathGrants(e, <<1>>)
                /\ \E i \in 1..3 : PathGrants(e, <<2, i>>)
       /\ NodeOut(e, <<2>>) = <<"true">>
            <=> \E i \in 1..3 : PathGrants(e, <<2, i>>)

C19_Witness ==
  \E e \in EvalsOf(AllOfNested) :
    /\ PathGrants(e, <<1>>)
    /\ NodeOut(e, <<2, 1>>) = <<"false">>
    /\ NodeOut(e, <<2, 2>>) = <<"true">>
    /\ NodeOut(e, <<2, 3>>) = <<"false">>
    /\ Delivered(e) = <<"true">>

(***************************************************************************)
(* Permissions without a provider (checked under SpecTest).                *)
(***************************************************************************)
\* the evaluations that call the test of a permission whose type has no
\* provider: Permission itself, or a type created with an argument that is
\* not a function
NoProviderEvals ==
  {e \in AllEvals :
     evals[e].test.k = "test" /\ perms[evals[e].test.p].type \notin Getters}

\* C20: the test of an instance of Permission, or of a type created without
\* a callable provider, throws 'Not implemented' and never calls the
\* callback it was given, nor the verifier; the test of a permission with a
\* provider does not throw
C20_NoProviderThrows ==
  /\ \A e \in NoProviderEvals :
       /\ evals[e].thrown = "Not implemented"
       /\ Delivered(e) = <<>>
       /\ Root(e).vreq = <<>> /\ ~Root(e).pending
       /\ (call.op = "test" /\ e = Len(evals)) => error = "Not implemented"
  /\ \A e \in PermEvals : evals[e].thrown = ""

C20_Witness ==
  \E e \in NoProviderEvals :
    /\ This(e).type = "inherited"
    /\ This(e).allowedByDefault /\ This(e)._test = "fn1"
    /\ call.op = "test" /\ error = "Not implemented"
    /\ evals[e].thrown = "Not implemented"
    /\ Delivered(e) = <<>>

(***************************************************************************)
(* SpecTypes: two permission types created with different providers, one   *)
(* instance of each, and evaluations of their tests for contexts in which  *)
(* the two providers return permission sets that vary independently.       *)
(***************************************************************************)
TypeTests == {"undefined", "fn2"}

\* the instances after new User(0, false, test1), new Client(1, false, test2)
TypesCtor(test1, test2) ==
  LET r1 == PermissionCtor(<<>>, create("user"), Num("0"), "false", test1)
      r2 == PermissionCtor(r1.codes, create("client"), Num("1"), "false",
                           test2)
  IN [codes |-> r2.codes, made |-> r1.made \o r2.made]

InitTypes ==
  \E test1 \in TypeTests, test2 \in TypeTests :
    /\ codes = TypesCtor(test1, test2).codes
    /\ perms = TypesCtor(test1, test2).made
    /\ built = <<>>
    /\ call = NewCall(create("client"), Num("1"), test2)
    /\ error = ""
    /\ resets = FALSE
    /\ evals = <<>>

\* the contexts: every provider returns a set over the codes of both
\* permissions
TypeContexts == Contexts(Getters, {"0", "1"}, {"true"})

NextTestTyped ==
  \E p \in 1..Len(perms) : TestPerm(p, TypeContexts, BoolVal)

NextTypes == NextTestTyped \/ NextCallbackBool

SpecTypes == InitTypes /\ [][NextTypes]_vars

(***************************************************************************)
(* Properties of Permission.create (checked under SpecTypes).              *)
(***************************************************************************)
\* the set returned by the provider of the permission's own type passes the
\* base check: it holds a truthy entry for the code, or no entry while the
\* permission is allowed by default
OwnSetGrants(e) ==
  /\ SetOf(e).v = "object"
  /\ \/ Truthy(EntryOf(e))
     \/ EntryOf(e) = "undefined" /\ This(e).allowedByDefault

\* the set the provider of the other type returns in evaluation e
OtherSetOf(e) ==
  evals[e].req.sets[CHOOSE g \in Getters : g # This(e).type]

\* C21: the test of an instance of a type returned by Permission.create
\* calls the provider once, with the context given to test, and decides on
\* the set of its own type's provider as Permission.test does, whatever the
\* provider of the other type returns
C21_OwnProviderDecides ==
  \A e \in PermEvals :
    /\ Root(e).greq = <<evals[e].req>>
    /\ IF This(e)._test = "undefined"
       THEN Delivered(e) = <<FromBool(OwnSetGrants(e))>>
       ELSE /\ Root(e).vreq # <<>> <=> OwnSetGrants(e)
            /\ ~OwnSetGrants(e) => Delivered(e) = <<"false">>

C21_Witness ==
  \E e \in PermEvals :
    /\ This(e).type = "client" /\ This(e)._test = "undefined"
    /\ SetOf(e).v = "object" /\ EntryOf(e) = "undefined"
    /\ OtherSetOf(e).v = "object"
    /\ Lookup(OtherSetOf(e), ToPropertyKey(This(e).code)) = "true"
    /\ Root(e).greq = <<evals[e].req>>
    /\ Delivered(e) = <<"false">>

(***************************************************************************)
(* SpecMw: a catalog of three permissions and, built over them at load     *)
(* time, one middleware or one test function over an empty list; then      *)
(* requests handled by the middleware and evaluations of the test function.*)
(***************************************************************************)
MwShapes ==
  {[op |-> "middleware", args |-> <<P1>>],
   [op |-> "middleware", args |-> <<P1, P2, P3>>],
   [op |-> "middleware", args |-> <<Array(<<P1, P2, P3>>)>>],
   [op |-> "middleware", args |-> <<any(<<P1, P2>>)>>],
   [op |-> "middleware", args |-> <<>>],
   [op |-> "middleware", args |-> <<Array(<<>>)>>],
   [op |-> "all", args |-> <<>>],
   [op |-> "all", args |-> <<Array(<<>>)>>],
   [op |-> "has", args |-> <<Array(<<>>)>>],
   [op |-> "any", args |-> <<>>],
   [op |-> "any", args |-> <<Array(<<>>)>>]}

\* the call sh of the middleware factory or of a combinator
BuildMw(sh) == IF sh.op = "middleware" THEN middleware(sh.args) ELSE Build(sh)

\* the message of the error the call sh throws
BuildError(sh) ==
  IF BuildMw(sh).k # "throw" THEN ""
  ELSE IF sh.op = "middleware" /\ Len(sh.args) = 0 THEN "Missing permissions"
  ELSE "Invalid permission"

InitMw ==
  \E c \in Catalogs, sh \in MwShapes :
    /\ codes = CatalogCtor(c).codes
    /\ perms = CatalogCtor(c).made
    /\ built = IF BuildMw(sh).k = "throw" THEN <<>>
               ELSE <<[call |-> sh, fn |-> BuildMw(sh)]>>
    /\ error = BuildError(sh)
    /\ call = BuildCall(sh.op, sh.args)
    /\ resets = FALSE
    /\ evals = <<>>

\* built[b].fn(req, res, next) for a middleware: its test is called with the
\* middleware's callback
RunMiddleware(b, Reqs, Vals) ==
  \E req \in Reqs : \E vr \in Outcomes(built[b].fn, Vals) :
    /\ built[b].call.op = "middleware"
    /\ Len(evals) < MaxEvals
    /\ evals' = Append(evals, Run(NewRequest(built[b].fn, req), <<>>, vr))
    /\ error' = evals'[Len(evals')].thrown
    /\ call' = OtherCall("request")
    /\ UNCHANGED <<codes, perms, built, resets>>

NextRunMiddleware ==
  \E b \in 1..Len(built) :
    RunMiddleware(b, ContextsFor(Leaves(built[b].fn), {"true"}),
                  VerifierVals)

\* a test function that is not inside a middleware is called
NextCallPlain ==
  \E b \in 1..Len(built) :
    /\ built[b].call.op # "middleware"
    /\ CallBuilt(b, ContextsFor({1}, {"true"}), VerifierVals)

NextMw == NextRunMiddleware \/ NextCallPlain \/ NextCallbackVal

SpecMw == InitMw /\ [][NextMw]_vars

(***************************************************************************)
(* Properties of the middleware (checked under SpecMw).                    *)
(***************************************************************************)
\* the requests handled by a middleware
Requests == {e \in AllEvals : evals[e].mw}

\* C22: for every request a middleware handles, nothing is called before
\* its test delivers, and once the test has delivered exactly one call was
\* made: next() if it delivered an allow, res.sendStatus(403) if it
\* delivered a deny
C22_ExactlyOneResponse ==
  \A e \in Requests :
    IF Delivered(e) = <<>> THEN evals[e].calls = <<>>
    ELSE /\ Len(Delivered(e)) = 1
         /\ evals[e].calls =
              <<IF Truthy(Delivered(e)[1]) THEN "next" ELSE "403">>

C22_Witness ==
  \E e \in Requests :
    /\ Len(evals[e].test.kids) = 3
    /\ call.op = "callback"
    /\ Delivered(e) = <<"true">>
    /\ evals[e].calls = <<"next">>

\* the middleware factory called with the three permissions as arguments,
\* and with one array of them
MwOfArgs == [op |-> "middleware", args |-> <<P1, P2, P3>>]
MwOfArray == [op |-> "middleware", args |-> <<Array(<<P1, P2, P3>>)>>]

\* the request e was passed on with next(), and nothing else was called
Passed(e) == evals[e].calls = <<"next">>

\* C23: a middleware made from several permissions as separate arguments
\* passes the request on iff any of them grants, a middleware made from one
\* array of permissions iff all of them grant; with no argument the factory
\* throws 'Missing permissions' and returns no middleware
C23_MiddlewareAnyAllMissing ==
  /\ \A e \in EvalsOf(MwOfArgs) : Passed(e) <=> GrantsAny(e)
  /\ \A e \in EvalsOf(MwOfArray) : Passed(e) <=> GrantsAll(e)
  /\ \A e \in DoneEvalsOf(MwOfArgs) \cup DoneEvalsOf(MwOfArray) :
       Passed(e) \/ evals[e].calls = <<"403">>
  /\ (call.op = "middleware" /\ call.args = <<>>)
       => error = "Missing permissions" /\ built = <<>> /\ evals = <<>>
  /\ error = "Missing permissions"
       => call.op = "middleware" /\ call.args = <<>>

C23_Witness ==
  \E e \in DoneEvalsOf(MwOfArgs) :
    /\ ~LeafGrants(e, 1) /\ LeafGrants(e, 2) /\ ~LeafGrants(e, 3)
    /\ Passed(e)

(***************************************************************************)
(* SpecLife: the life of a process: permissions are constructed (and the   *)
(* registry possibly reset), one test function or middleware is built over *)
(* them, and it is called.                                                 *)
(***************************************************************************)
LifeCodes == {Num("1"), Str("1")}
LifeTests == {"undefined", "fn2"}

NextLifeConstruct ==
  \E code \in LifeCodes, test \in LifeTests :
    Construct(create("user"), code, "false", test)

\* the calls of has, any and the middleware factory over the first and the
\* last of n permissions
LifeShapes(n) ==
  {[op |-> "has", args |-> <<PermObj(1)>>],
   [op |-> "any", args |-> <<PermObj(1), PermObj(n)>>],
   [op |-> "middleware", args |-> <<Array(<<PermObj(1), PermObj(n)>>)>>],
   [op |-> "has", args |-> <<AString>>]}

\* has(...), any(...) or the middleware factory is called
BuildTest(sh) ==
  /\ built = <<>>
  /\ built' = IF BuildMw(sh).k = "throw" THEN built
              ELSE <<[call |-> sh, fn |-> BuildMw(sh)]>>
  /\ error' = BuildError(sh)
  /\ call' = BuildCall(sh.op, sh.args)
  /\ UNCHANGED <<codes, perms, resets, evals>>

NextBuildTest ==
  \E sh \in LifeShapes(Len(perms)) : Len(perms) > 0 /\ BuildTest(sh)

\* the contexts whose permission set holds nothing, or an entry "1"
LifeContexts == Contexts({"user"}, {"1"}, {"true"})

NextLifeCall ==
  \E b \in 1..Len(built) :
    /\ built[b].call.op # "middleware"
    /\ CallBuilt(b, LifeContexts, {"true"})

NextLifeRequest ==
  \E b \in 1..Len(built) : RunMiddleware(b, LifeContexts, {"true"})

NextLife ==
  \/ NextLifeConstruct
  \/ Reset
  \/ NextBuildTest
  \/ NextLifeCall
  \/ NextLifeRequest
  \/ NextCallbackBool

SpecLife == Init /\ [][NextLife]_vars

(***************************************************************************)
(* The registry over the life of a process (checked under SpecLife).       *)
(***************************************************************************)
\* cs is an initial part of ds
IsPrefix(cs, ds) == Len(cs) <= Len(ds) /\ SubSeq(ds, 1, Len(cs)) = cs

\* a step changes the registry only if it is a constructor call, which may
\* append its code, or a reset, which empties it; any other step (building
\* a test function or a middleware, calling one, a verifier calling back)
\* leaves it as it is
RegistryFrame ==
  /\ call'.op = "new"
       => codes' = codes \/ codes' = Append(codes, call'.code)
  /\ call'.op = "reset" => codes' = <<>>
  /\ call'.op \notin {"new", "reset"} => codes' = codes
  /\ call'.op # "reset" => IsPrefix(codes, codes')

\* C24: the registry of used codes changes only by insertion at permission
\* construction and by a reset: building a test, evaluating it and running
\* a middleware leave it unchanged, and without a reset it never loses a
\* code
C24_RegistryFrame == [][RegistryFrame]_vars

C24_Witness ==
  /\ ~resets
  /\ codes = <<Num("1"), Str("1")>>
  /\ call.op = "callback"
  /\ \E e \in Requests : evals[e].calls # <<>>

(***************************************************************************)
(* SpecPair: one test function built by all or any over two permissions,   *)
(* called for several contexts before the verifiers of the earlier calls   *)
(* have called back.                                                       *)
(***************************************************************************)
PairShapes ==
  {[op |-> "all", args |-> <<P1, P2>>],
   [op |-> "any", args |-> <<P1, P2>>]}

InitPair ==
  \E c \in Catalogs, sh \in PairShapes :
    /\ codes = CatalogCtor(c).codes
    /\ perms = CatalogCtor(c).made
    /\ built = <<[call |-> sh, fn |-> Build(sh)]>>
    /\ error = ""
    /\ call = BuildCall(sh.op, sh.args)
    /\ resets = FALSE
    /\ evals = <<>>

\* built[b].fn(req, done) while earlier calls of it may still be in flight
CallInFlight(b, Reqs, Vals) ==
  \E req \in Reqs : \E vr \in Outcomes(built[b].fn, Vals) :
    /\ Len(evals) < MaxFlight
    /\ evals' = Append(evals, Run(NewEval(built[b].fn, req), <<>>, vr))
    /\ error' = evals'[Len(evals')].thrown
    /\ call' = OtherCall("call")
    /\ UNCHANGED <<codes, perms, built, resets>>

NextCallPair ==
  \E b \in 1..Len(built) :
    CallInFlight(b, ContextsFor(Leaves(built[b].fn), {"true"}), BoolVal)

NextPair == NextCallPair \/ NextCallbackBool

SpecPair == InitPair /\ [][NextPair]_vars

(***************************************************************************)
(* Evaluations in flight together (checked under SpecPair).                *)
(***************************************************************************)
\* the permission set of evaluation e's own context passes the base check
\* of the permission tested at path
OwnBasePasses(e, path) ==
  LET this == perms[NodeAt(evals[e].test, path).p]
      set == evals[e].req.sets[this.type]
      entry == Lookup(set, ToPropertyKey(this.code))
  IN /\ set.v = "object"
     /\ Truthy(entry) \/ (entry = "undefined" /\ this.allowedByDefault)

\* the permission tested at path grants / denies in evaluation e, by e's own
\* context and by what its verifier answered in e
OwnGrant(e, path) ==
  LET this == perms[NodeAt(evals[e].test, path).p]
      vout == evals[e].st[path].vout
  IN /\ OwnBasePasses(e, path)
     /\ this._test = "undefined" \/ (vout # <<>> /\ Truthy(vout[1]))
OwnDeny(e, path) ==
  LET vout == evals[e].st[path].vout
  IN ~OwnBasePasses(e, path) \/ (vout # <<>> /\ ~Truthy(vout[1]))

\* what evaluation e has delivered follows from its own context and its own
\* verifiers' answers
OwnResult(e) ==
  IF evals[e].test.k = "all"
  THEN /\ Delivered(e) = <<"true">>
            <=> \A i \in KidsOf(e, <<>>) : OwnGrant(e, <<i>>)
       /\ Delivered(e) = <<"false">>
            <=> \E i \in KidsOf(e, <<>>) : OwnDeny(e, <<i>>)
  ELSE /\ Delivered(e) = <<"true">>
            <=> \E i \in KidsOf(e, <<>>) : OwnGrant(e, <<i>>)
       /\ Delivered(e) = <<"false">>
            <=> \A i \in KidsOf(e, <<>>) : OwnDeny(e, <<i>>)

\* a step changes at most one evaluation in flight
OneAtATime ==
  \A e, f \in AllEvals :
    (e # f /\ evals'[e] # evals[e]) => evals'[f] = evals[f]

\* C25: when a test function is evaluated for several contexts at the same
\* time, with the verifiers calling back in any order, every evaluation
\* delivers the result its own context and its own verifiers determine, and
\* a callback of one evaluation changes nothing in another
C25_EvaluationsAreIndependent ==
  [](\A e \in AllEvals : OwnResult(e) /\ Len(Delivered(e)) <= 1)
    /\ [][OneAtATime]_vars

C25_Witness ==
  /\ Len(evals) = 2
  /\ evals[1].req # evals[2].req
  /\ evals[1].test.k = "any"
  /\ evals[1].st[<<1>>].pending
  /\ evals[1].st[<<2>>].vout = <<"true">> /\ Delivered(1) = <<"true">>
  /\ perms[2]._test = "fn2"
  /\ evals[2].st[<<2>>].vout = <<"false">>
  /\ ~OwnBasePasses(2, <<1>>) /\ Delivered(2) = <<"false">>
  /\ call.op = "callback"

(***************************************************************************)
(* Failed constructions and the registry (checked under Spec).             *)
(***************************************************************************)
\* C26: a construction that throws ('Missing permission code', 'Duplicate
\* permission code' or 'Invalid permission test') leaves the registry of
\* used codes as it was before the call
C26_FailedConstructionKeepsRegistry ==
  [][(call'.op = "new" /\ error' # "") => codes' = codes]_vars

(***************************************************************************)
(* Registered codes and the entries they read (checked under SpecLife).    *)
(***************************************************************************)
\* the entry of its permission set that permission p reads
EntryRead(p) == <<perms[p].type, ToPropertyKey(perms[p].code)>>

\* C27: two permissions that were both constructed never read the same
\* entry of a permission set, a number and the string of the same digits
\* included
C27_DistinctCodesReadDistinctEntries ==
  \A p, q \in 1..Len(perms) : p # q => EntryRead(p) # EntryRead(q)

(***************************************************************************)
(* SpecCombFair: flat and nested tests in which every asynchronous         *)
(* verifier that was started calls back at some time.                      *)
(***************************************************************************)
FairShapes ==
  {[op |-> "all", args |-> <<P1, any(<<P2, P3>>)>>],
   [op |-> "any", args |-> <<all(<<P1, P2>>), P3>>],
   [op |-> "any", args |-> <<P1, P2, P3>>],
   [op |-> "has", args |-> <<P1>>]}

InitFair ==
  \E c \in Catalogs, sh \in FairShapes :
    /\ codes = CatalogCtor(c).codes
    /\ perms = CatalogCtor(c).made
    /\ built = <<[call |-> sh, fn |-> Build(sh)]>>
    /\ error = ""
    /\ call = BuildCall(sh.op, sh.args)
    /\ resets = FALSE
    /\ evals = <<>>

SpecCombFair == InitFair /\ [][NextComb]_vars /\ WF_vars(NextCallbackBool)

\* evaluation e was started and its providers did not throw
Started(e) == e \in AllEvals /\ evals[e].thrown = ""
\* the test of evaluation e and every all / any nested in it have delivered
Delivers(e) ==
  /\ e \in AllEvals
  /\ \A path \in Composites(e) \cup {<<>>} : Len(NodeOut(e, path)) = 1
\* no permission tested by evaluation e has an asynchronous verifier
NoAsync(e) == \A path \in NodesOf(e, "test") : SyncLeaf(e, path)

EmptyGrant ==
  {[op |-> "all", args |-> <<>>], [op |-> "all", args |-> <<Array(<<>>)>>],
   [op |-> "has", args |-> <<Array(<<>>)>>]}
EmptyDeny ==
  {[op |-> "any", args |-> <<>>], [op |-> "any", args |-> <<Array(<<>>)>>]}
MwOfEmptyArray == [op |-> "middleware", args |-> <<Array(<<>>)>>]

\* the evaluations of the test function, or the requests handled by the
\* middleware, that one of the calls shs returned
EvalsBuiltBy(shs) ==
  {e \in AllEvals :
     \E b \in 1..Len(built) :
       built[b].call \in shs /\ built[b].fn = evals[e].test}

\* evaluation e called no provider and no verifier
NothingEvaluated(e) ==
  \A path \in Paths(evals[e].test) :
    /\ evals[e].st[path].greq = <<>>
    /\ evals[e].st[path].vreq = <<>>
    /\ ~evals[e].st[path].pending

\* C29: all(), all([]) and has([]) deliver true for every context, any()
\* and any([]) deliver false for every context, and a middleware made from
\* an empty array passes every request on; no provider and no verifier is
\* called
C29_EmptyListsDecideAtOnce ==
  /\ \A e \in EvalsBuiltBy(EmptyGrant) :
       Delivered(e) = <<"true">> /\ NothingEvaluated(e)
  /\ \A e \in EvalsBuiltBy(EmptyDeny) :
       Delivered(e) = <<"false">> /\ NothingEvaluated(e)
  /\ \A e \in EvalsBuiltBy({MwOfEmptyArray}) :
       evals[e].mw /\ Passed(e) /\ NothingEvaluated(e)
  /\ \A sh \in EmptyGrant \cup EmptyDeny \cup {MwOfEmptyArray} :
       (call = BuildCall(sh.op, sh.args))
         => error = "" /\ Len(built) = 1 /\ built[1].call = sh

C29_Witness ==
  \E e \in EvalsBuiltBy({MwOfEmptyArray}) :
    /\ Passed(e)
    /\ evals[e].req.sets["user"].v # "object"
    /\ call.op = "request"

(***************************************************************************)
(* Entries that are not booleans (checked under SpecTest).                 *)
(***************************************************************************)
\* the base check of evaluation e granted: the verifier was called, or true
\* was delivered when there is none
BaseGranted(e) ==
  IF This(e)._test = "undefined" THEN Delivered(e) = <<"true">>
  ELSE Root(e).vreq # <<>>
\* the base check of evaluation e denied: false was delivered and the
\* verifier was not called
BaseDenied(e) == Delivered(e) = <<"false">> /\ Root(e).vreq = <<>>

\* C30: with a permission set, the base check grants iff the entry of the
\* code is truthy, or is undefined and the permission is allowed by
\* default: null, 0 and '' deny even when the permission is allowed by
\* default, a truthy entry that is not a boolean grants even when it is not
C30_TruthinessOfEntryDecides ==
  \A e \in PermEvals :
    SetOf(e).v = "object"
    => /\ BaseGranted(e)
            <=> (Truthy(EntryOf(e))
                   \/ (EntryOf(e) = "undefined" /\ This(e).allowedByDefault))
       /\ BaseDenied(e) <=> ~BaseGranted(e)
       /\ EntryOf(e) \in {"null", "zero", "empty"} => BaseDenied(e)
       /\ EntryOf(e) = "foo" => BaseGranted(e)

C30_Witness ==
  \E e \in PermEvals :
    /\ SetOf(e).v = "object"
    /\ EntryOf(e) = "zero" /\ This(e).allowedByDefault
    /\ This(e)._test = "fn1"
    /\ BaseDenied(e)

====
